---- MODULE Spec2Model ----
(***************************************************************************)
(* A model of EmployeeScheduler (src/EmployeeScheduler.py): the roster,    *)
(* the ordered preference dictionary, the weekly schedule with its two     *)
(* caches (daily_employees, weekly_shifts) and generate_schedule() as the  *)
(* sequence of its loop iterations.                                        *)
(***************************************************************************)
EXTENDS Integers, Sequences, FiniteSets, TLC

(* ------------------------------------------------------------------ *)
(* Class constants                                                    *)
(* ------------------------------------------------------------------ *)
DAYS_OF_WEEK ==
    <<"Monday", "Tuesday", "Wednesday", "Thursday", "Friday", "Saturday", "Sunday">>

SHIFT_TIMES ==
    <<"Morning", "Afternoon", "Evening">>

VALID_DAYS ==
    {DAYS_OF_WEEK[i] : i \in 1..Len(DAYS_OF_WEEK)}

VALID_SHIFTS ==
    {SHIFT_TIMES[i] : i \in 1..Len(SHIFT_TIMES)}

\* a weekly cap one shift lower
four_shifts_per_week ==
    5 - 1

MAX_SHIFTS_PER_WEEK ==
    5

MIN_EMPLOYEES_PER_SHIFT ==
    2

MIN_TOTAL_EMPLOYEES ==
    9

(* ------------------------------------------------------------------ *)
(* Bounds of the model                                                *)
(* ------------------------------------------------------------------ *)
\* Employee names are the integers 1..NumNames.
NumNames ==
    9

\* The employees 1..NumPrefNames record preferences between construction and
\* generation; the scenarios below record them for every employee.
NumPrefNames ==
    2

\* The hash seeds of the process: 0..MaxHashSeed.
MaxHashSeed ==
    2

\* The modulus of the modelled string hash.
HashMod ==
    11

\* Callers record at most MaxRecorded preferences between construction and
\* generation, one more where intake is looked at on its own.
MaxRecorded ==
    2

Names ==
    1..NumNames

HashSeeds ==
    0..MaxHashSeed

\* The days and shifts callers pass between construction and generation: valid
\* ones and one of each outside the enumerations.
DayInputs ==
    {"Monday", "Someday"}

ShiftInputs ==
    {"Morning", "Evening", "Night"}

\* The days passed where intake is looked at on its own.
IntakeDays ==
    {"Monday", "Tuesday", "Someday"}

(* ------------------------------------------------------------------ *)
(* State                                                              *)
(* ------------------------------------------------------------------ *)
VARIABLES
    schedule,         \* day -> shift -> sequence of employees
    weekly_shifts,    \* employee -> shifts this week (a dict: absent means 0)
    daily_employees,  \* day -> set of employees working that day
    preferences,      \* ordered dict employee -> ordered dict day -> list of shifts
    all_employees,    \* the set of all employees
    hash_seed,        \* fixes the iteration order of all_employees
    pc,               \* "idle", or the pass generate_schedule() is in
    cursor,           \* the loop indices of the running pass
    result,           \* what the latest call returned
    seeded,           \* the schedule as the first pass of the latest generation left it
    called,           \* the latest intake call and its arguments, where noted
    last              \* outcome of the latest generate_schedule() that ran on
                      \* the present roster and preferences

vars ==
    <<schedule, weekly_shifts, daily_employees, preferences, all_employees,
      hash_seed, pc, cursor, result, seeded, called, last>>

cycle ==
    <<schedule, weekly_shifts, daily_employees>>

(* ------------------------------------------------------------------ *)
(* Helpers over the data structures                                   *)
(* ------------------------------------------------------------------ *)
\* list membership: x in seq
InSeq(x, seq) ==
    \E i \in 1..Len(seq) : seq[i] = x

\* dict.get(employee, 0)
GetShifts(w, employee) ==
    IF employee \in DOMAIN w THEN w[employee] ELSE 0

NoShifts ==
    [e \in {} |-> 0]

EmptySchedule ==
    [day \in VALID_DAYS |-> [shift \in VALID_SHIFTS |-> <<>>]]

EmptyDaily ==
    [day \in VALID_DAYS |-> {}]

\* position of the key in an ordered dict held as a sequence of records, 0 if absent
EmpIndex(prefs, employee) ==
    IF \E i \in 1..Len(prefs) : prefs[i].emp = employee
    THEN CHOOSE i \in 1..Len(prefs) : prefs[i].emp = employee
    ELSE 0

DayIndex(days, day) ==
    IF \E i \in 1..Len(days) : days[i].day = day
    THEN CHOOSE i \in 1..Len(days) : days[i].day = day
    ELSE 0

\* The number of preferences recorded: the lengths of all lists of shifts.
RECURSIVE RecordedIn(_)
RecordedIn(days) ==
    IF days = <<>> THEN 0 ELSE Len(days[1].shifts) + RecordedIn(Tail(days))

RECURSIVE Recorded(_)
Recorded(prefs) ==
    IF prefs = <<>> THEN 0 ELSE RecordedIn(prefs[1].days) + Recorded(Tail(prefs))

(* ------------------------------------------------------------------ *)
(* Intake                                                             *)
(* ------------------------------------------------------------------ *)
\* RecordPreference without the test for a shift already in the list
RecordPreferenceAgain(prefs, employee, day, shift) ==
    LET p1 == IF EmpIndex(prefs, employee) = 0
              THEN Append(prefs, [emp |-> employee, days |-> <<>>])
              ELSE prefs
        i  == EmpIndex(p1, employee)
        d1 == IF DayIndex(p1[i].days, day) = 0
              THEN Append(p1[i].days, [day |-> day, shifts |-> <<>>])
              ELSE p1[i].days
        j  == DayIndex(d1, day)
    IN  [p1 EXCEPT ![i].days = [d1 EXCEPT ![j].shifts = Append(@, shift)]]

\* preferences after add_employee_preference(employee, day, shift), day and shift valid
RecordPreference(prefs, employee, day, shift) ==
    LET p1 == IF EmpIndex(prefs, employee) = 0
              THEN Append(prefs, [emp |-> employee, days |-> <<>>])
              ELSE prefs
        i  == EmpIndex(p1, employee)
        d1 == IF DayIndex(p1[i].days, day) = 0
              THEN Append(p1[i].days, [day |-> day, shifts |-> <<>>])
              ELSE p1[i].days
        j  == DayIndex(d1, day)
        s1 == IF InSeq(shift, d1[j].shifts) THEN d1[j].shifts ELSE Append(d1[j].shifts, shift)
    IN  [p1 EXCEPT ![i].days = [d1 EXCEPT ![j].shifts = s1]]

\* the validation without its test of the shift
ValidDayOnly(day, shift) ==
    day \in VALID_DAYS

ValidSlot(day, shift) ==
    day \in VALID_DAYS /\ shift \in VALID_SHIFTS

\* the roster and the preferences after add_employee_preference
PreferenceAdded(all, prefs, employee, day, shift) ==
    IF ~ValidSlot(day, shift)
    THEN [all |-> all, prefs |-> prefs]
    ELSE [all |-> all \cup {employee}, prefs |-> RecordPreference(prefs, employee, day, shift)]

\* the stored outcome stays only while roster and preferences are what it ran on
KeepLast(all, prefs) ==
    IF all = all_employees /\ prefs = preferences THEN last ELSE [kind |-> "None"]

add_employee_preference(employee, day, shift) ==
    /\ pc = "idle"
    /\ LET after == PreferenceAdded(all_employees, preferences, employee, day, shift)
       IN  /\ all_employees' = after.all
           /\ preferences' = after.prefs
           /\ last' = KeepLast(after.all, after.prefs)
    /\ result' = [kind |-> "None"]
    /\ UNCHANGED <<cycle, hash_seed, pc, cursor, seeded>>

\* add_employee assigning a new set instead of adding to the present one
add_employee_replacing(employee) ==
    /\ pc = "idle"
    /\ all_employees' = {employee}
    /\ last' = KeepLast({employee}, preferences)
    /\ result' = [kind |-> "None"]
    /\ UNCHANGED <<cycle, preferences, hash_seed, pc, cursor, seeded>>

add_employee(employee) ==
    /\ pc = "idle"
    /\ all_employees' = all_employees \cup {employee}
    /\ last' = KeepLast(all_employees \cup {employee}, preferences)
    /\ result' = [kind |-> "None"]
    /\ UNCHANGED <<cycle, preferences, hash_seed, pc, cursor, seeded>>

(* ------------------------------------------------------------------ *)
(* Feasibility check and the two mutators                             *)
(* ------------------------------------------------------------------ *)
\* can_assign_shift without its first condition
can_assign_any_day(employee, day, shift) ==
    /\ GetShifts(weekly_shifts, employee) < MAX_SHIFTS_PER_WEEK
    /\ ~InSeq(employee, schedule[day][shift])

\* can_assign_shift without its second condition
can_assign_any_load(employee, day, shift) ==
    /\ employee \notin daily_employees[day]
    /\ ~InSeq(employee, schedule[day][shift])

can_assign_shift(employee, day, shift) ==
    /\ employee \notin daily_employees[day]
    /\ GetShifts(weekly_shifts, employee) < MAX_SHIFTS_PER_WEEK
    /\ ~InSeq(employee, schedule[day][shift])

\* assign_employee_to_shift counting from nothing instead of from the present count
assign_without_count(employee, day, shift) ==
    /\ schedule' = [schedule EXCEPT ![day][shift] = Append(@, employee)]
    /\ daily_employees' = [daily_employees EXCEPT ![day] = @ \cup {employee}]
    /\ weekly_shifts' = (employee :> 1) @@ weekly_shifts

\* assign_employee_to_shift without self.daily_employees[day].add(employee)
assign_without_day(employee, day, shift) ==
    /\ schedule' = [schedule EXCEPT ![day][shift] = Append(@, employee)]
    /\ daily_employees' = daily_employees
    /\ weekly_shifts' =
           (employee :> (GetShifts(weekly_shifts, employee) + 1)) @@ weekly_shifts

\* assign_employee_to_shift doing nothing
assign_nothing(employee, day, shift) ==
    UNCHANGED cycle

assign_employee_to_shift(employee, day, shift) ==
    /\ schedule' = [schedule EXCEPT ![day][shift] = Append(@, employee)]
    /\ daily_employees' = [daily_employees EXCEPT ![day] = @ \cup {employee}]
    /\ weekly_shifts' =
           (employee :> (GetShifts(weekly_shifts, employee) + 1)) @@ weekly_shifts

\* clear_schedule without weekly_shifts.clear()
clear_schedule_keeping_loads ==
    /\ weekly_shifts' = weekly_shifts
    /\ daily_employees' = EmptyDaily
    /\ schedule' = EmptySchedule

clear_schedule ==
    /\ weekly_shifts' = NoShifts
    /\ daily_employees' = EmptyDaily
    /\ schedule' = EmptySchedule

\* clear_schedule() called on its own, between two generations
clear_schedule_called ==
    /\ pc = "idle"
    /\ clear_schedule
    /\ result' = [kind |-> "None"]
    /\ UNCHANGED <<preferences, all_employees, hash_seed, pc, cursor, seeded, called, last>>

(* ------------------------------------------------------------------ *)
(* Iteration order of the set all_employees                           *)
(* ------------------------------------------------------------------ *)
\* The hash of a name under the seed of the process.
HashOf(employee) ==
    (employee * (hash_seed + 1)) % HashMod

\* Members are met in the order of their hash, colliding ones in name order.
IterKey(employee) ==
    HashOf(employee) * (NumNames + 1) + employee

\* The members of the set in the order the iteration meets them.
IterOrder(S) ==
    LET place == [x \in S |-> Cardinality({y \in S : IterKey(y) < IterKey(x)}) + 1]
    IN  [k \in 1..Cardinality(S) |-> CHOOSE x \in S : place[x] = k]

\* The place list.sort(key=workload) gives the i-th element: after every
\* element with fewer shifts and, the sort being stable, after the earlier
\* elements with as many.
SortRank(seq, i) ==
    Cardinality({j \in 1..Len(seq) :
        \/ GetShifts(weekly_shifts, seq[j]) < GetShifts(weekly_shifts, seq[i])
        \/ /\ GetShifts(weekly_shifts, seq[j]) = GetShifts(weekly_shifts, seq[i])
           /\ j <= i})

\* list.sort(key=workload): stable, ascending
SortByWorkload(seq) ==
    LET place == [i \in 1..Len(seq) |-> SortRank(seq, i)]
    IN  [k \in 1..Len(seq) |-> seq[CHOOSE i \in 1..Len(seq) : place[i] = k]]

\* the candidates taken from the keys of preferences instead of all_employees
available_with_preferences(day, shift) ==
    SelectSeq(IterOrder({preferences[i].emp : i \in 1..Len(preferences)}),
              LAMBDA emp : can_assign_shift(emp, day, shift))

\* [emp for emp in self.all_employees if self.can_assign_shift(emp, day, shift)]
available_employees(day, shift) ==
    SelectSeq(IterOrder(all_employees), LAMBDA emp : can_assign_shift(emp, day, shift))

\* the first candidate, the list left unsorted
first_available(available) ==
    available[1]

\* the list sorted the other way round: the candidate with the most shifts
most_loaded_available(available) ==
    SortByWorkload(available)[Len(available)]

\* available_employees.sort(key=workload); selected_employee = available_employees[0]
selected_employee(available) ==
    SortByWorkload(available)[1]

(* ------------------------------------------------------------------ *)
(* generate_schedule                                                  *)
(* ------------------------------------------------------------------ *)
\* The next (employee, day, shift) of the nested loops of the first pass
\* at or after the indices given, <<>> when the loops are exhausted.
RECURSIVE NextPreference(_, _, _)
NextPreference(ei, di, si) ==
    IF ei > Len(preferences) THEN <<>>
    ELSE IF di > Len(preferences[ei].days) THEN NextPreference(ei + 1, 1, 1)
    ELSE IF si > Len(preferences[ei].days[di].shifts) THEN NextPreference(ei, di + 1, 1)
    ELSE <<ei, di, si>>

\* Continue the first pass at the indices given, or fall through to the second.
FirstPassFrom(ei, di, si) ==
    IF NextPreference(ei, di, si) = <<>>
    THEN pc' = "second_pass" /\ cursor' = <<1, 1>> /\ seeded' = schedule'
    ELSE pc' = "first_pass" /\ cursor' = NextPreference(ei, di, si) /\ seeded' = EmptySchedule

\* the gate letting one employee fewer through
InsufficientStaffOffByOne ==
    Cardinality(all_employees) + 1 < MIN_TOTAL_EMPLOYEES

InsufficientStaff ==
    Cardinality(all_employees) < MIN_TOTAL_EMPLOYEES

\* The call: the staffing gate, clear_schedule(), entry of the first pass.
generate_schedule ==
    /\ pc = "idle"
    /\ IF InsufficientStaff
       THEN /\ result' = [kind |-> "InsufficientStaff",
                          required |-> MIN_TOTAL_EMPLOYEES,
                          current |-> Cardinality(all_employees)]
            /\ UNCHANGED <<cycle, pc, cursor, seeded>>
       ELSE /\ clear_schedule
            /\ FirstPassFrom(1, 1, 1)
            /\ result' = [kind |-> "None"]
    /\ UNCHANGED <<preferences, all_employees, hash_seed, called, last>>

\* the first pass without its emptiness condition
ShiftAlwaysFree(day, shift) ==
    TRUE

\* shift_employees = self.schedule[day][shift]; not shift_employees
ShiftIsEmpty(day, shift) ==
    schedule[day][shift] = <<>>

\* One iteration of the innermost loop of the first pass.
FirstPassStep ==
    /\ pc = "first_pass"
    /\ LET ei == cursor[1]
           di == cursor[2]
           si == cursor[3]
           employee == preferences[ei].emp
           day == preferences[ei].days[di].day
           shift == preferences[ei].days[di].shifts[si]
       IN  IF can_assign_shift(employee, day, shift) /\ ShiftIsEmpty(day, shift)
           THEN /\ assign_employee_to_shift(employee, day, shift)
                /\ FirstPassFrom(ei, di + 1, 1)
           ELSE /\ UNCHANGED cycle
                /\ FirstPassFrom(ei, di, si + 1)
    /\ UNCHANGED <<preferences, all_employees, hash_seed, result, called, last>>

\* What a generate_schedule() that passed the gate leaves behind on return.
Outcome(res) ==
    [kind |-> res.kind, result |-> res, schedule |-> schedule,
     weekly_shifts |-> weekly_shifts]

\* the loop condition with len + 1 in place of len
UnderstaffedOffByOne(day, shift) ==
    Len(schedule[day][shift]) + 1 < MIN_EMPLOYEES_PER_SHIFT

\* the loop condition with <= in place of <
UnderstaffedOneMore(day, shift) ==
    Len(schedule[day][shift]) <= MIN_EMPLOYEES_PER_SHIFT

\* len(current_employees) < self.MIN_EMPLOYEES_PER_SHIFT
Understaffed(day, shift) ==
    Len(schedule[day][shift]) < MIN_EMPLOYEES_PER_SHIFT

\* One iteration of the while loop of the second pass.
SecondPassStep ==
    /\ pc = "second_pass"
    /\ LET day == DAYS_OF_WEEK[cursor[1]]
           shift == SHIFT_TIMES[cursor[2]]
       IN  /\ Understaffed(day, shift)
           /\ \E available \in {available_employees(day, shift)} :
                IF available = <<>>
                THEN /\ result' = [kind |-> "StaffingShortfall", day |-> day, shift |-> shift]
                     /\ last' = Outcome([kind |-> "StaffingShortfall",
                                         day |-> day, shift |-> shift])
                     /\ pc' = "idle"
                     /\ cursor' = <<>>
                     /\ UNCHANGED cycle
                ELSE /\ \E selected \in {selected_employee(available)} :
                          assign_employee_to_shift(selected, day, shift)
                     /\ UNCHANGED <<pc, cursor, result, last>>
    /\ UNCHANGED <<preferences, all_employees, hash_seed, seeded, called>>

\* The while loop is left: the next shift, the next day, or the success report.
SecondPassNext ==
    /\ pc = "second_pass"
    /\ ~Understaffed(DAYS_OF_WEEK[cursor[1]], SHIFT_TIMES[cursor[2]])
    /\ IF cursor[2] < Len(SHIFT_TIMES)
       THEN cursor' = <<cursor[1], cursor[2] + 1>> /\ UNCHANGED <<pc, result, last>>
       ELSE IF cursor[1] < Len(DAYS_OF_WEEK)
       THEN cursor' = <<cursor[1] + 1, 1>> /\ UNCHANGED <<pc, result, last>>
       ELSE /\ result' = [kind |-> "Success"]
            /\ last' = Outcome([kind |-> "Success"])
            /\ pc' = "idle"
            /\ cursor' = <<>>
    /\ UNCHANGED <<cycle, preferences, all_employees, hash_seed, seeded, called>>

Generation ==
    \/ generate_schedule
    \/ FirstPassStep
    \/ SecondPassStep
    \/ SecondPassNext

(* ------------------------------------------------------------------ *)
(* The engine from construction on                                    *)
(* ------------------------------------------------------------------ *)
Constructed ==
    /\ schedule = EmptySchedule
    /\ weekly_shifts = NoShifts
    /\ daily_employees = EmptyDaily
    /\ preferences = <<>>
    /\ all_employees = {}
    /\ pc = "idle"
    /\ cursor = <<>>
    /\ result = [kind |-> "None"]
    /\ seeded = EmptySchedule
    /\ called = <<>>
    /\ last = [kind |-> "None"]

Init ==
    /\ Constructed
    /\ hash_seed \in HashSeeds

\* Names are handed out in order: a caller passes a registered name or the
\* next unused one.
KnownOrNext ==
    {e \in Names : e <= Cardinality(all_employees) + 1}

Next ==
    \/ \E employee \in KnownOrNext : add_employee(employee) /\ UNCHANGED called
    \/ \E employee \in KnownOrNext \cap (1..NumPrefNames),
          day \in DayInputs, shift \in ShiftInputs :
           /\ Recorded(preferences) < MaxRecorded
           /\ add_employee_preference(employee, day, shift)
           /\ UNCHANGED called
    \/ clear_schedule_called
    \/ Generation

Spec ==
    Init /\ [][Next]_vars

(* ------------------------------------------------------------------ *)
(* Intake on its own, every call noted                                *)
(* ------------------------------------------------------------------ *)
InitIntake ==
    /\ Constructed
    /\ hash_seed = 0

NextIntake ==
    \/ \E employee \in KnownOrNext \cap (1..NumPrefNames) :
           /\ add_employee(employee)
           /\ called' = <<"add_employee", employee>>
    \/ \E employee \in KnownOrNext \cap (1..NumPrefNames),
          day \in IntakeDays, shift \in ShiftInputs :
           /\ Recorded(preferences) <= MaxRecorded
           /\ add_employee_preference(employee, day, shift)
           /\ called' = <<"add_employee_preference", employee, day, shift>>

SpecIntake ==
    InitIntake /\ [][NextIntake]_vars

(* ------------------------------------------------------------------ *)
(* The engine after intake: rosters and preferences as sequences of   *)
(* add_employee and add_employee_preference calls leave them          *)
(* ------------------------------------------------------------------ *)
\* The first MIN_TOTAL_EMPLOYEES names, registered with add_employee.
Staff ==
    1..MIN_TOTAL_EMPLOYEES

\* Roster and preferences after the add_employee_preference calls of the sequence.
RECURSIVE Intake(_, _, _)
Intake(all, prefs, calls) ==
    IF calls = <<>> THEN [all |-> all, prefs |-> prefs]
    ELSE LET after == PreferenceAdded(all, prefs, calls[1][1], calls[1][2], calls[1][3])
         IN  Intake(after.all, after.prefs, Tail(calls))

\* The n-th slot of the week in calendar order, n in 1..21.
SlotAt(n) ==
    <<DAYS_OF_WEEK[((n - 1) \div Len(SHIFT_TIMES)) + 1],
      SHIFT_TIMES[((n - 1) % Len(SHIFT_TIMES)) + 1]>>

\* Nobody records a preference.
NoPreferenceCalls ==
    {<<>>}

\* Everybody records (Monday, Morning), employee r+1 first.
SameChoiceCalls ==
    {[i \in 1..MIN_TOTAL_EMPLOYEES |->
          <<((i + r - 1) % MIN_TOTAL_EMPLOYEES) + 1, "Monday", "Morning">>] :
     r \in 0..(MIN_TOTAL_EMPLOYEES - 1)}

\* Employee e records every other slot of the week, slot 2e - 1, as first choice.
FirstChoiceCalls ==
    [e \in 1..MIN_TOTAL_EMPLOYEES |-> <<e, SlotAt(2 * e - 1)[1], SlotAt(2 * e - 1)[2]>>]

\* Distinct first choices, then at most one further preference of anybody.
DistinctChoiceCalls ==
    {FirstChoiceCalls}
      \cup {Append(FirstChoiceCalls, <<e, day, shift>>) :
              e \in Names, day \in VALID_DAYS, shift \in VALID_SHIFTS}

\* Eight preferences for Friday to Sunday: three of w, three of y and two of
\* the employee before y.
WeekendCalls ==
    {<< <<w, "Saturday", "Afternoon">>, <<w, "Friday", "Evening">>,
        <<w, "Sunday", "Afternoon">>,
        <<y, "Friday", "Afternoon">>, <<y, "Saturday", "Morning">>,
        <<y, "Sunday", "Morning">>,
        <<((y + MIN_TOTAL_EMPLOYEES - 2) % MIN_TOTAL_EMPLOYEES) + 1, "Sunday", "Evening">>,
        <<((y + MIN_TOTAL_EMPLOYEES - 2) % MIN_TOTAL_EMPLOYEES) + 1, "Saturday", "Evening">> >> :
     w \in Names, y \in Names}

\* One employee records the same shift on every day of the week.
EveryDayCalls ==
    {[i \in 1..Len(DAYS_OF_WEEK) |-> <<e, DAYS_OF_WEEK[i], shift>>] :
     e \in Names, shift \in VALID_SHIFTS}

ScenarioCalls ==
    NoPreferenceCalls \cup SameChoiceCalls \cup DistinctChoiceCalls
      \cup WeekendCalls \cup EveryDayCalls

\* The engine after add_employee for the staff and the calls given, no generation yet.
AfterIntake(calls) ==
    /\ all_employees = Intake(Staff, <<>>, calls).all
    /\ preferences = Intake(Staff, <<>>, calls).prefs
    /\ schedule = EmptySchedule
    /\ weekly_shifts = NoShifts
    /\ daily_employees = EmptyDaily
    /\ pc = "idle"
    /\ cursor = <<>>
    /\ result = [kind |-> "None"]
    /\ seeded = EmptySchedule
    /\ called = <<>>
    /\ last = [kind |-> "None"]

InitScenarios ==
    /\ \E calls \in ScenarioCalls : AfterIntake(calls)
    /\ hash_seed \in HashSeeds

SpecScenarios ==
    InitScenarios /\ [][Generation]_vars

\* Nine employees without preferences, under every multiplier of the hash.
InitNoPreferences ==
    /\ AfterIntake(<<>>)
    /\ hash_seed \in 0..(HashMod - 2)

GenerationNoPreferences ==
    \/ generate_schedule
    \/ SecondPassStep
    \/ SecondPassNext

SpecNoPreferences ==
    InitNoPreferences /\ [][GenerationNoPreferences]_vars

\* Rosters below the minimum, the first employee with or without a preference.
InitShortOfStaff ==
    /\ \E n \in 1..(MIN_TOTAL_EMPLOYEES - 1) :
         \E calls \in {<<>>, << <<1, "Monday", "Morning">> >>} :
            /\ all_employees = Intake(1..n, <<>>, calls).all
            /\ preferences = Intake(1..n, <<>>, calls).prefs
    /\ schedule = EmptySchedule
    /\ weekly_shifts = NoShifts
    /\ daily_employees = EmptyDaily
    /\ pc = "idle"
    /\ cursor = <<>>
    /\ result = [kind |-> "None"]
    /\ seeded = EmptySchedule
    /\ called = <<>>
    /\ last = [kind |-> "None"]
    /\ hash_seed \in HashSeeds

\* A generate_schedule() that has been called runs on: the interpreter
\* executes the next iteration of the loop the call is in.
Running ==
    FirstPassStep \/ SecondPassStep \/ SecondPassNext

\* The scenarios without the further preference after distinct first
\* choices, the weekend preferences with employee 1 as their first employee.
TerminationCalls ==
    NoPreferenceCalls \cup SameChoiceCalls \cup {FirstChoiceCalls} \cup EveryDayCalls
      \cup {calls \in WeekendCalls : calls[1][1] = 1}

InitTermination ==
    /\ \E calls \in TerminationCalls : AfterIntake(calls)
    /\ hash_seed \in HashSeeds

SpecTermination ==
    /\ (InitTermination \/ InitShortOfStaff)
    /\ [][Generation]_vars
    /\ WF_vars(Running)

(* ------------------------------------------------------------------ *)
(* Properties                                                         *)
(* ------------------------------------------------------------------ *)
Slots ==
    VALID_DAYS \X VALID_SHIFTS

\* The number of shift slots of the week that list the employee.
Appearances(employee) ==
    Cardinality({sl \in Slots : InSeq(employee, schedule[sl[1]][sl[2]])})

\* The calendar position of a slot, 1..21.
SlotNumber(day, shift) ==
    CHOOSE n \in 1..(Len(DAYS_OF_WEEK) * Len(SHIFT_TIMES)) : SlotAt(n) = <<day, shift>>

\* generate_schedule() has returned and nothing was called since.
Returned ==
    pc = "idle" /\ result.kind # "None"

\* C1: daily exclusivity. In every state, between the steps of
\* generate_schedule() and after its return with success or with a staffing
\* shortfall, no employee is listed in more than one shift of the same day.
DailyExclusivity ==
    \A employee \in Names, day \in VALID_DAYS :
        Cardinality({shift \in VALID_SHIFTS : InSeq(employee, schedule[day][shift])}) <= 1

\* The second pass fills a shift while an employee below the weekly cap is
\* kept out of it only because of an earlier shift of the same day.
DailyExclusivityWitness ==
    /\ pc = "second_pass"
    /\ Understaffed(DAYS_OF_WEEK[cursor[1]], SHIFT_TIMES[cursor[2]])
    /\ \E employee \in all_employees :
          /\ employee \in daily_employees[DAYS_OF_WEEK[cursor[1]]]
          /\ ~InSeq(employee, schedule[DAYS_OF_WEEK[cursor[1]]][SHIFT_TIMES[cursor[2]]])
          /\ GetShifts(weekly_shifts, employee) < MAX_SHIFTS_PER_WEEK
          /\ \A other \in all_employees :
                 can_assign_shift(other, DAYS_OF_WEEK[cursor[1]], SHIFT_TIMES[cursor[2]])
                    => GetShifts(weekly_shifts, employee) < GetShifts(weekly_shifts, other)

\* C2: weekly cap. In every state, between the steps of generate_schedule()
\* and after its return, every employee is listed in at most
\* MAX_SHIFTS_PER_WEEK shifts.
WeeklyCap ==
    \A employee \in Names : Appearances(employee) <= MAX_SHIFTS_PER_WEEK

\* A shift is being filled while an employee who is free that day already
\* has MAX_SHIFTS_PER_WEEK shifts.
WeeklyCapWitness ==
    /\ pc = "second_pass"
    /\ Understaffed(DAYS_OF_WEEK[cursor[1]], SHIFT_TIMES[cursor[2]])
    /\ \E employee \in all_employees :
          /\ Appearances(employee) = MAX_SHIFTS_PER_WEEK
          /\ employee \notin daily_employees[DAYS_OF_WEEK[cursor[1]]]

\* C3: minimum staffing. When generate_schedule() has returned the success
\* report, each of the 21 slots lists at least MIN_EMPLOYEES_PER_SHIFT employees.
MinimumStaffing ==
    result.kind = "Success" =>
        /\ Cardinality(Slots) = 21
        /\ \A sl \in Slots : Len(schedule[sl[1]][sl[2]]) >= MIN_EMPLOYEES_PER_SHIFT

\* A success report for a roster with recorded preferences.
MinimumStaffingWitness ==
    /\ result.kind = "Success"
    /\ preferences # <<>>
    /\ seeded # EmptySchedule

\* C5: load consistency. In every state, after any sequence of add_employee,
\* add_employee_preference and generate_schedule calls and between the steps
\* of a generation, weekly_shifts.get(e, 0) is the number of slots listing e.
LoadConsistency ==
    \A employee \in Names : GetShifts(weekly_shifts, employee) = Appearances(employee)

\* A later generation, started over the schedule an earlier one left, has
\* given an employee a second shift.
LoadConsistencyWitness ==
    /\ last.kind # "None"
    /\ pc = "second_pass"
    /\ \E employee \in all_employees : Appearances(employee) >= 2

\* C4: staffing gate. A generate_schedule() call made with fewer than
\* MIN_TOTAL_EMPLOYEES employees registered returns the InsufficientStaff
\* failure with the current employee count and changes neither the roster,
\* nor the preferences, nor the schedule, daily_employees and weekly_shifts.
StaffingGate ==
    [][(/\ pc = "idle"
        /\ Cardinality(all_employees) < MIN_TOTAL_EMPLOYEES
        /\ (pc' # "idle" \/ result'.kind # "None"))
          => /\ result' = [kind |-> "InsufficientStaff",
                           required |-> MIN_TOTAL_EMPLOYEES,
                           current |-> Cardinality(all_employees)]
             /\ pc' = "idle"
             /\ UNCHANGED <<all_employees, preferences, schedule,
                            daily_employees, weekly_shifts>>]_vars

\* Scenario B: generate_schedule() has refused a roster of five, one of them
\* with a recorded preference.
StaffingGateWitness ==
    /\ result = [kind |-> "InsufficientStaff", required |-> 9, current |-> 5]
    /\ Cardinality(all_employees) = 5
    /\ preferences # <<>>

\* The employee is listed in a shift of the day.
WorksOn(employee, day) ==
    \E shift \in VALID_SHIFTS : InSeq(employee, schedule[day][shift])

\* A step of the second pass reports the shortfall for the slot it is at
\* exactly when the slot is understaffed and nobody can be assigned to it.
ShortfallWhen ==
    pc = "second_pass" =>
        LET day == DAYS_OF_WEEK[cursor[1]]
            shift == SHIFT_TIMES[cursor[2]]
        IN  (/\ Len(schedule[day][shift]) < MIN_EMPLOYEES_PER_SHIFT
             /\ \A employee \in all_employees : ~can_assign_shift(employee, day, shift))
              <=> result' = [kind |-> "StaffingShortfall", day |-> day, shift |-> shift]

\* The shortfall is reported by the second pass only, ends the generation
\* and keeps the schedule as it stands.
ShortfallAborts ==
    (result'.kind = "StaffingShortfall" /\ result.kind # "StaffingShortfall")
        => pc = "second_pass" /\ pc' = "idle" /\ UNCHANGED cycle

\* Where the shortfall was reported: the slot is short, everybody works that
\* day or has the maximum of shifts, the slots before it are full and the
\* slots after it are as the first pass left them.
ShortfallState ==
    result.kind = "StaffingShortfall" =>
        /\ Len(schedule[result.day][result.shift]) < MIN_EMPLOYEES_PER_SHIFT
        /\ \A employee \in all_employees :
               WorksOn(employee, result.day) \/ Appearances(employee) >= MAX_SHIFTS_PER_WEEK
        /\ \A sl \in Slots :
               /\ SlotNumber(sl[1], sl[2]) < SlotNumber(result.day, result.shift)
                    => Len(schedule[sl[1]][sl[2]]) = MIN_EMPLOYEES_PER_SHIFT
               /\ SlotNumber(sl[1], sl[2]) > SlotNumber(result.day, result.shift)
                    => schedule[sl[1]][sl[2]] = seeded[sl[1]][sl[2]]

\* C6: staffing shortfall. generate_schedule() returns StaffingShortfall for
\* slot (d, s) exactly when the second pass finds the slot with fewer than 2
\* employees and can_assign_shift false for every registered employee (each
\* works on d or has 5 shifts); it aborts at once, keeping the assignments
\* made, with 2 employees in every earlier slot and no assignment of the
\* second pass in any later slot.
Shortfall ==
    []ShortfallState /\ [][ShortfallWhen /\ ShortfallAborts]_vars

\* A shortfall reported before the last slot of the week, a later slot
\* holding an employee the first pass put there, and an employee with 5
\* shifts who is free that day.
ShortfallWitness ==
    /\ result.kind = "StaffingShortfall"
    /\ \E sl \in Slots :
          /\ SlotNumber(sl[1], sl[2]) > SlotNumber(result.day, result.shift)
          /\ schedule[sl[1]][sl[2]] # <<>>
    /\ \E employee \in all_employees :
          /\ Appearances(employee) = MAX_SHIFTS_PER_WEEK
          /\ ~WorksOn(employee, result.day)

\* C7: determinism from scratch. A generate_schedule() that ends on the
\* roster and preferences an earlier one ended on, whatever that one left in
\* the schedule and whether it succeeded or failed, ends with the same
\* ordered list in every slot, the same loads and the same report.
Determinism ==
    [][(pc # "idle" /\ pc' = "idle" /\ last.kind # "None")
          => /\ schedule' = last.schedule
             /\ weekly_shifts' = last.weekly_shifts
             /\ result' = last.result]_vars

\* A generation started over the schedule a failed one left has come to
\* the last day of the week.
DeterminismWitness ==
    /\ last.kind = "StaffingShortfall"
    /\ pc = "second_pass"
    /\ cursor[1] = Len(DAYS_OF_WEEK)
    /\ schedule # last.schedule

\* The first preference the i-th employee of the preferences recorded.
FirstChoice(i) ==
    <<preferences[i].days[1].day, preferences[i].days[1].shifts[1]>>

\* Exactly nine employees, each with a first choice nobody else has as first choice.
DistinctFirstChoices ==
    /\ Cardinality(all_employees) = 9
    /\ Len(preferences) = 9
    /\ \A i, j \in 1..Len(preferences) : i # j => FirstChoice(i) # FirstChoice(j)

\* C8: preference honored. With exactly 9 employees whose first choices are
\* pairwise distinct, the first pass leaves in each first-choice slot exactly
\* the employee who chose it first.
PreferenceHonored ==
    (DistinctFirstChoices /\ pc = "second_pass") =>
        \A i \in 1..Len(preferences) :
            seeded[FirstChoice(i)[1]][FirstChoice(i)[2]] = <<preferences[i].emp>>

\* C9: scenario A. With exactly 9 employees and no preferences, whatever the
\* iteration order of all_employees, generate_schedule() returns the success
\* report and every slot lists exactly 2 employees.
NoPreferencesSucceed ==
    (Cardinality(all_employees) = 9 /\ preferences = <<>> /\ Returned) =>
        /\ result.kind = "Success"
        /\ \A sl \in Slots : Len(schedule[sl[1]][sl[2]]) = 2

\* The success report under an iteration order other than the name order.
NoPreferencesSucceedWitness ==
    /\ Cardinality(all_employees) = 9
    /\ preferences = <<>>
    /\ result.kind = "Success"
    /\ IterOrder(all_employees)[1] # 1

\* Nine employees who all recorded (Monday, Morning) and nothing else.
SameChoice ==
    /\ Cardinality(all_employees) = 9
    /\ Len(preferences) = 9
    /\ \A i \in 1..Len(preferences) :
           preferences[i].days = <<[day |-> "Monday", shifts |-> <<"Morning">>]>>

\* The schedule with the first recorded employee in Monday Morning and nobody else.
FirstRecordedSeeded ==
    [EmptySchedule EXCEPT !["Monday"]["Morning"] = <<preferences[1].emp>>]

\* C10: scenario C. With 9 employees who all recorded the single preference
\* (Monday, Morning), the first pass assigns the employee recorded first to
\* Monday Morning and nobody else: its schedule is empty or holds that one
\* assignment, and that one assignment is what it hands to the second pass.
SameChoiceSeedsOne ==
    SameChoice =>
        /\ pc = "first_pass" => schedule \in {EmptySchedule, FirstRecordedSeeded}
        /\ (pc = "second_pass" \/ Returned) => seeded = FirstRecordedSeeded

\* The generation of scenario C has succeeded, the employee recorded first
\* not being employee 1, the other 41 assignments made by the second pass.
SameChoiceSeedsOneWitness ==
    /\ SameChoice
    /\ result.kind = "Success"
    /\ preferences[1].emp # 1
    /\ seeded = FirstRecordedSeeded
    /\ \A sl \in Slots : Len(schedule[sl[1]][sl[2]]) = 2

\* C11: persistent roster and preferences. No step of generate_schedule(),
\* whatever it returns, and no clear_schedule() adds, removes or changes an
\* employee of all_employees or an entry of preferences, and no operation
\* at all removes an employee from all_employees.
Persistence ==
    [][/\ all_employees \subseteq all_employees'
       /\ (pc # "idle" \/ pc' # "idle" \/ result'.kind # "None" \/ cycle' # cycle)
             => UNCHANGED <<all_employees, preferences>>]_vars

\* clear_schedule() has emptied the schedule a successful generation left
\* for a roster with recorded preferences.
PersistenceWitness ==
    /\ pc = "idle"
    /\ last.kind = "Success"
    /\ schedule = EmptySchedule
    /\ preferences # <<>>
    /\ Cardinality(all_employees) >= MIN_TOTAL_EMPLOYEES

\* The step is an add_employee_preference call.
PreferenceCall ==
    Len(called') = 4 /\ called'[1] = "add_employee_preference"

\* C12: permissive intake. add_employee_preference(employee, day, shift)
\* with a day outside DAYS_OF_WEEK or a shift outside SHIFT_TIMES returns
\* None and changes nothing: not the preferences, not all_employees (the
\* employee is not registered by it), not the schedule, daily_employees and
\* weekly_shifts.
PermissiveIntake ==
    [][(PreferenceCall /\ (called'[3] \notin VALID_DAYS \/ called'[4] \notin VALID_SHIFTS))
          => /\ UNCHANGED <<all_employees, preferences, schedule,
                            daily_employees, weekly_shifts>>
             /\ result' = [kind |-> "None"]]_vars

\* The latest call passed a valid day with a shift outside SHIFT_TIMES for
\* an employee who is not registered, other preferences being recorded.
PermissiveIntakeWitness ==
    /\ Len(called) = 4
    /\ called[3] \in VALID_DAYS
    /\ called[4] \notin VALID_SHIFTS
    /\ called[2] \notin all_employees
    /\ preferences # <<>>

\* The employees of the preferences, in the order of the dictionary.
PreferenceKeys(prefs) ==
    [i \in 1..Len(prefs) |-> prefs[i].emp]

\* The days an employee has preferences for, in the order of the dictionary.
DayKeys(prefs, employee) ==
    IF EmpIndex(prefs, employee) = 0 THEN <<>>
    ELSE [j \in 1..Len(prefs[EmpIndex(prefs, employee)].days) |->
              prefs[EmpIndex(prefs, employee)].days[j].day]

\* The list of shifts an employee has recorded for a day, empty if none.
ShiftsOf(prefs, employee, day) ==
    IF EmpIndex(prefs, employee) = 0 THEN <<>>
    ELSE IF DayIndex(prefs[EmpIndex(prefs, employee)].days, day) = 0 THEN <<>>
    ELSE prefs[EmpIndex(prefs, employee)].days[
             DayIndex(prefs[EmpIndex(prefs, employee)].days, day)].shifts

\* No list of shifts names a shift twice, no dictionary has a key twice.
NoDuplicateShifts ==
    /\ \A i, j \in 1..Len(preferences) :
           preferences[i].emp = preferences[j].emp => i = j
    /\ \A i \in 1..Len(preferences) :
           /\ \A j, k \in 1..Len(preferences[i].days) :
                  preferences[i].days[j].day = preferences[i].days[k].day => j = k
           /\ \A j \in 1..Len(preferences[i].days) :
                  \A k, l \in 1..Len(preferences[i].days[j].shifts) :
                      preferences[i].days[j].shifts[k] = preferences[i].days[j].shifts[l]
                         => k = l

\* What a call with a valid day and shift does: the employee is registered,
\* the shift is at the end of the list of that day unless it was in the
\* list, every other list is as it was, new keys come last, a second call
\* with the same arguments would change nothing, and the cycle is untouched.
RecordedOnce ==
    (PreferenceCall /\ called'[3] \in VALID_DAYS /\ called'[4] \in VALID_SHIFTS) =>
        LET employee == called'[2]
            day == called'[3]
            shift == called'[4]
            before == ShiftsOf(preferences, employee, day)
        IN  /\ all_employees' = all_employees \cup {employee}
            /\ ShiftsOf(preferences', employee, day) =
                   IF InSeq(shift, before) THEN before ELSE Append(before, shift)
            /\ \A e \in Names, d \in VALID_DAYS :
                   <<e, d>> # <<employee, day>>
                      => ShiftsOf(preferences', e, d) = ShiftsOf(preferences, e, d)
            /\ PreferenceKeys(preferences') =
                   IF EmpIndex(preferences, employee) = 0
                   THEN Append(PreferenceKeys(preferences), employee)
                   ELSE PreferenceKeys(preferences)
            /\ \A e \in Names :
                   DayKeys(preferences', e) =
                      IF e = employee /\ ~InSeq(day, DayKeys(preferences, e))
                      THEN Append(DayKeys(preferences, e), day)
                      ELSE DayKeys(preferences, e)
            /\ PreferenceAdded(all_employees', preferences', employee, day, shift) =
                   [all |-> all_employees', prefs |-> preferences']
            /\ UNCHANGED cycle

\* C13: recording a preference. add_employee_preference(employee, day, shift)
\* with a valid day and shift registers the employee and appends the shift
\* to the end of the employee's list for that day only if the list does not
\* hold it; the same call repeated changes nothing, no list ever holds a
\* shift twice, and schedule, daily_employees and weekly_shifts are not touched.
PreferenceRecorded ==
    []NoDuplicateShifts /\ [][RecordedOnce]_vars

\* The latest call named a shift that was already the first of two in the
\* employee's list for that day.
PreferenceRecordedWitness ==
    /\ Len(called) = 4
    /\ called[3] \in VALID_DAYS
    /\ called[4] \in VALID_SHIFTS
    /\ Len(ShiftsOf(preferences, called[2], called[3])) = 2
    /\ ShiftsOf(preferences, called[2], called[3])[1] = called[4]

\* C14: first-pass seeding rule. The first pass takes the employees in the
\* order of the preferences and assigns each to the first of their recorded
\* slots that is empty, and to nothing else: when it ends, every slot lists
\* at most one employee and every employee is listed in at most one slot.
FirstPassSeedsOnce ==
    pc = "second_pass" =>
        /\ \A sl \in Slots : Len(seeded[sl[1]][sl[2]]) <= 1
        /\ \A employee \in Names :
               Cardinality({sl \in Slots : InSeq(employee, seeded[sl[1]][sl[2]])}) <= 1

\* The calendar position of the slot the second pass is at.
CursorNumber(c) ==
    (c[1] - 1) * Len(SHIFT_TIMES) + c[2]

\* The second pass has filled the slots before the one it is at and has
\* not touched the slots after it.
CalendarOrder ==
    pc = "second_pass" =>
        \A sl \in Slots :
            /\ SlotNumber(sl[1], sl[2]) < CursorNumber(cursor)
                  => Len(schedule[sl[1]][sl[2]]) >= MIN_EMPLOYEES_PER_SHIFT
            /\ SlotNumber(sl[1], sl[2]) > CursorNumber(cursor)
                  => schedule[sl[1]][sl[2]] = seeded[sl[1]][sl[2]]

\* A step of the second pass stays at its slot or moves to the next one of
\* the calendar; an assignment it makes appends to the slot it is at an
\* employee for whom can_assign_shift holds and who has no more shifts than
\* any other employee for whom it holds.
LeastLoadedStep ==
    (pc = "second_pass" /\ pc' = "second_pass") =>
        LET day == DAYS_OF_WEEK[cursor[1]]
            shift == SHIFT_TIMES[cursor[2]]
        IN  /\ CursorNumber(cursor') \in {CursorNumber(cursor), CursorNumber(cursor) + 1}
            /\ schedule' # schedule =>
                  \E employee \in all_employees :
                      /\ schedule' = [schedule EXCEPT ![day][shift] = Append(@, employee)]
                      /\ can_assign_shift(employee, day, shift)
                      /\ \A other \in all_employees :
                             can_assign_shift(other, day, shift)
                                => GetShifts(weekly_shifts, employee)
                                      <= GetShifts(weekly_shifts, other)

\* C15: least-loaded fill. The second pass takes the slots in calendar
\* order (Monday to Sunday, Morning, Afternoon, Evening within a day), and
\* every employee it assigns to a slot satisfies can_assign_shift for that
\* slot and has, when assigned, no more shifts than any other registered
\* employee for whom can_assign_shift holds on that slot.
LeastLoadedFill ==
    []CalendarOrder /\ [][LeastLoadedStep]_vars

\* The second pass has given the slot it is at a second employee although
\* an employee who comes earlier in the iteration of all_employees, is free
\* that day and below the weekly cap had more shifts at that moment.
LeastLoadedFillWitness ==
    /\ pc = "second_pass"
    /\ LET day == DAYS_OF_WEEK[cursor[1]]
           shift == SHIFT_TIMES[cursor[2]]
       IN  /\ Len(schedule[day][shift]) = 2
           /\ schedule[day][shift] # seeded[day][shift]
           /\ \E other \in all_employees :
                  /\ other \notin daily_employees[day]
                  /\ GetShifts(weekly_shifts, other) < MAX_SHIFTS_PER_WEEK
                  /\ GetShifts(weekly_shifts, other)
                        >= GetShifts(weekly_shifts, schedule[day][shift][2])
                  /\ IterKey(other) < IterKey(schedule[day][shift][2])

\* The k-th registered employee in the order of the names.
Kth(S, k) ==
    CHOOSE x \in S : Cardinality({y \in S : y < x}) = k - 1

\* A rota for the first MIN_TOTAL_EMPLOYEES employees: the seats of the
\* week, MIN_EMPLOYEES_PER_SHIFT per slot in calendar order, are handed out
\* to the employees in turn.
Rota ==
    [day \in VALID_DAYS |-> [shift \in VALID_SHIFTS |->
        [i \in 1..MIN_EMPLOYEES_PER_SHIFT |->
            Kth(all_employees,
                (((SlotNumber(day, shift) - 1) * MIN_EMPLOYEES_PER_SHIFT + i - 1)
                    % MIN_TOTAL_EMPLOYEES) + 1)]]]

\* The assignment keeps the constraints of the scheduler: registered
\* employees only, nobody twice on a day, nobody above the weekly cap, and
\* the minimum staffing in every slot.
Feasible(s) ==
    /\ \A sl \in Slots :
           /\ Len(s[sl[1]][sl[2]]) >= MIN_EMPLOYEES_PER_SHIFT
           /\ \A i \in 1..Len(s[sl[1]][sl[2]]) : s[sl[1]][sl[2]][i] \in all_employees
           /\ \A i, j \in 1..Len(s[sl[1]][sl[2]]) :
                  s[sl[1]][sl[2]][i] = s[sl[1]][sl[2]][j] => i = j
    /\ \A employee \in all_employees :
           /\ \A day \in VALID_DAYS :
                  Cardinality({shift \in VALID_SHIFTS : InSeq(employee, s[day][shift])}) <= 1
           /\ Cardinality({sl \in Slots : InSeq(employee, s[sl[1]][sl[2]])})
                 <= MAX_SHIFTS_PER_WEEK

\* C16: greedy limitation. Where generate_schedule() returns the staffing
\* shortfall for a roster of at least 9 employees, an assignment of the
\* same employees exists that keeps daily exclusivity, the weekly cap of 5
\* and at least 2 employees in each of the 21 slots: the rota is one.
GreedyLimitation ==
    result.kind = "StaffingShortfall" =>
        /\ Cardinality(all_employees) >= MIN_TOTAL_EMPLOYEES
        /\ Feasible(Rota)
        /\ ~Feasible(schedule)

\* generate_schedule() has returned the shortfall for a roster of exactly
\* nine employees, before the last slot of the week, and the rota is feasible.
GreedyLimitationWitness ==
    /\ result.kind = "StaffingShortfall"
    /\ Cardinality(all_employees) = 9
    /\ SlotNumber(result.day, result.shift) < 21
    /\ Feasible(Rota)

\* What generate_schedule() returns is one of its three reports.
OneOfThreeReports ==
    result.kind \in {"None", "InsufficientStaff", "StaffingShortfall", "Success"}
      /\ (Returned => result.kind \in {"InsufficientStaff", "StaffingShortfall", "Success"})

\* A call returns at once with InsufficientStaff or enters the passes; an
\* iteration of the first pass moves on in the preferences; an iteration of
\* the while loop returns the shortfall or adds one employee to the slot.
LoopProgress ==
    /\ pc = "idle" => (pc' # "idle" \/ result'.kind = "InsufficientStaff")
    /\ (pc = "first_pass" /\ pc' = "first_pass") =>
           \/ cursor'[1] > cursor[1]
           \/ cursor'[1] = cursor[1] /\ cursor'[2] > cursor[2]
           \/ cursor'[1] = cursor[1] /\ cursor'[2] = cursor[2] /\ cursor'[3] > cursor[3]
    /\ (pc = "second_pass"
          /\ Len(schedule[DAYS_OF_WEEK[cursor[1]]][SHIFT_TIMES[cursor[2]]])
                < MIN_EMPLOYEES_PER_SHIFT) =>
           \/ pc' = "idle" /\ result'.kind = "StaffingShortfall"
           \/ /\ pc' = "second_pass"
              /\ cursor' = cursor
              /\ Len(schedule'[DAYS_OF_WEEK[cursor[1]]][SHIFT_TIMES[cursor[2]]])
                    = Len(schedule[DAYS_OF_WEEK[cursor[1]]][SHIFT_TIMES[cursor[2]]]) + 1

\* C17: termination. Every generate_schedule() call returns, with exactly
\* one of InsufficientStaff, StaffingShortfall or the success report; the
\* while loop of a slot does not run forever, each of its iterations
\* returning the failure or adding one employee to the slot.
Termination ==
    /\ (pc # "idle") ~> Returned
    /\ []OneOfThreeReports
    /\ [][LoopProgress]_vars

\* The second pass is in the while loop of a slot nobody has been assigned
\* to yet, with at least one employee free for it.
TerminationWitness ==
    /\ pc = "second_pass"
    /\ schedule[DAYS_OF_WEEK[cursor[1]]][SHIFT_TIMES[cursor[2]]] = <<>>
    /\ cursor[1] > 1
    /\ available_employees(DAYS_OF_WEEK[cursor[1]], SHIFT_TIMES[cursor[2]]) # <<>>

\* C18: the daily_employees cache. In every state, after each assignment
\* of generate_schedule() and after clear_schedule(), daily_employees[d] is
\* exactly the set of employees listed in one of the three shifts of day d,
\* and no shift lists an employee twice.
DailyCache ==
    /\ \A day \in VALID_DAYS :
           daily_employees[day] = {employee \in Names : WorksOn(employee, day)}
    /\ \A sl \in Slots :
           \A i, j \in 1..Len(schedule[sl[1]][sl[2]]) :
               schedule[sl[1]][sl[2]][i] = schedule[sl[1]][sl[2]][j] => i = j

\* A generation started over the schedule of an earlier one, its first pass
\* having seeded a slot, is on the last day of the week with at least four
\* employees working on every earlier day.
DailyCacheWitness ==
    /\ pc = "second_pass"
    /\ last.kind # "None"
    /\ seeded # EmptySchedule
    /\ cursor[1] = Len(DAYS_OF_WEEK)
    /\ \A i \in 1..(Len(DAYS_OF_WEEK) - 1) :
           Cardinality(daily_employees[DAYS_OF_WEEK[i]]) >= 4

\* The sum of weekly_shifts.get(e, 0) over the employees of the set.
RECURSIVE TotalShifts(_)
TotalShifts(S) ==
    IF S = {} THEN 0
    ELSE LET e == CHOOSE x \in S : TRUE
         IN  GetShifts(weekly_shifts, e) + TotalShifts(S \ {e})

\* C19: exact staffing. In no state, during or after generate_schedule(),
\* does a slot list more than 2 employees; when the success report has been
\* returned every slot lists exactly 2 and the weekly_shifts of all
\* employees sum to 42.
ExactStaffing ==
    /\ \A sl \in Slots : Len(schedule[sl[1]][sl[2]]) <= 2
    /\ result.kind = "Success" =>
           /\ \A sl \in Slots : Len(schedule[sl[1]][sl[2]]) = 2
           /\ TotalShifts(all_employees) = 42

\* A success report where the first pass seeded five slots and the loads
\* of the employees are not all the same.
ExactStaffingWitness ==
    /\ result.kind = "Success"
    /\ Cardinality({sl \in Slots : seeded[sl[1]][sl[2]] # <<>>}) >= 5
    /\ \E e1, e2 \in all_employees :
           GetShifts(weekly_shifts, e1) = 5 /\ GetShifts(weekly_shifts, e2) = 4

====
